---- MODULE Spec2Model ----
(***************************************************************************)
(* A model of the grid level, the player, the monsters and the projectile  *)
(* of the game (src/src/level.js, player.js, monster.js, main.js).         *)
(*                                                                         *)
(* Numbers.  The program computes in floating point; the model computes in *)
(* fixed point.  Lengths and coordinates are in twentieths of a world unit *)
(* (4 units = 80, 1.6 = 32, 1.25 = 25), velocities in twentieths of a unit *)
(* per second, frame times (delta) in tenths of a second, unit vectors in  *)
(* thousandths.  With the frame times of Dts every product of the player's *)
(* update is exact in these units.                                         *)
(*                                                                         *)
(* Scheduling.  JavaScript runs one task at a time: a frame (animate), an  *)
(* input event or a timer callback runs to completion before the next one  *)
(* starts.  Each action below is one such task.                            *)
(***************************************************************************)
EXTENDS Integers, Sequences, FiniteSets, TLC

VARIABLES
    level,       \* Level: rows, cols, grid, monsterSpawns (level.js 17-21)
    qx, qz,      \* the world coordinates of the last grid query
    qWall, qFloor, \* what isWall and getFloorHeight returned for it
    isLocked,    \* player.controls.isLocked
    keys,        \* moveForward, moveBackward, moveLeft, moveRight
    yaw,         \* the camera's rotation about Y, in quarter turns
    pos,         \* player.getObject().position
    velocity,    \* player.velocity
    onGround,    \* player.onGround
    monsters,    \* the monsters list of main.js: sequence of Monster
    timers,      \* the pending setTimeout callbacks of takeDamage, per monster
    proj,        \* the projectiles constructed: << >> or one Projectile
    frames,      \* the number of frames animated so far
    last         \* what the last frame, shot, jump or damage task did

vars == <<level, qx, qz, qWall, qFloor, isLocked, keys, yaw, pos, velocity,
          onGround, monsters, timers, proj, frames, last>>

levelVars == <<level>>
queryVars == <<qx, qz, qWall, qFloor>>
playerVars == <<isLocked, keys, yaw, pos, velocity, onGround>>
monsterVars == <<monsters, timers>>
projVars == <<proj>>

----------------------------------------------------------------------------
(* Level (src/src/level.js)                                                *)

cellSize == 80            \* 4 world units

voidHeight == -2000       \* -100: the floor height of out-of-grid points

\* The switch of _parseMap with the floor heights left out: every cell at 0
cellOfFlat(val) ==
    [isWall |-> val = 1, height |-> 0, ceilHeight |-> 80, hasItem |-> val = 2]

\* The cell a map code stands for (the switch of _parseMap).  A cell that
\* is not given hasItem has none.
cellOf(val) ==
    LET cell == [isWall |-> FALSE, height |-> 0, ceilHeight |-> 80,
                 hasItem |-> FALSE]
    IN  CASE val = 1 -> [cell EXCEPT !.isWall = TRUE, !.height = 0]
          [] val = 0 -> [cell EXCEPT !.height = 0]
          [] val = 2 -> [cell EXCEPT !.height = 0, !.hasItem = TRUE]
          [] val = 3 -> [cell EXCEPT !.height = 30]
          [] val = 4 -> [cell EXCEPT !.height = 60]
          [] val = 5 -> [cell EXCEPT !.height = -40]
          [] val = 6 -> [cell EXCEPT !.height = 0]
          [] val = 7 -> [cell EXCEPT !.height = 0]
          [] OTHER -> [cell EXCEPT !.height = 0]

\* The spawn record a map code pushes, if any (cases 6 and 7).
spawnOf(val, x, z) ==
    CASE val = 6 -> <<[type |-> "imp", x |-> x * cellSize, z |-> z * cellSize]>>
      [] val = 7 -> <<[type |-> "demon", x |-> x * cellSize, z |-> z * cellSize]>>
      [] OTHER -> <<>>

\* mapData[z][x] with JavaScript's 0-based indices; an index past the end of
\* a row reads undefined, which no case of the switch matches (-1 here).
mapAt(mapData, z, x) ==
    IF x + 1 <= Len(mapData[z + 1]) THEN mapData[z + 1][x + 1] ELSE -1

\* The spawn records of cells (z, x), (z, x+1), ... in row-major order.
RECURSIVE spawnsFrom(_, _, _, _, _)
spawnsFrom(mapData, rows, cols, z, x) ==
    IF z >= rows THEN <<>>
    ELSE IF x >= cols THEN spawnsFrom(mapData, rows, cols, z + 1, 0)
    ELSE spawnOf(mapAt(mapData, z, x), x, z)
         \o spawnsFrom(mapData, rows, cols, z, x + 1)

\* Level._parseMap, for a map with at least one row: rows and cols from the
\* map and its first row, one cell per (z, x), the spawn records in order.
parseMap(mapData) ==
    LET rows == Len(mapData)
        cols == Len(mapData[1])
    IN  [rows |-> rows,
         cols |-> cols,
         grid |-> [z \in 1..rows |->
                     [x \in 1..cols |-> cellOf(mapAt(mapData, z - 1, x - 1))]],
         monsterSpawns |-> spawnsFrom(mapData, rows, cols, 0, 0)]

\* Math.floor(c / cellSize) in the place of Math.round
gridIndexFloor(c) == c \div cellSize

\* Math.round(c / cellSize): the nearest integer, a tie going up.
gridIndex(c) == (2 * c + cellSize) \div (2 * cellSize)

inGrid(lv, gridX, gridZ) ==
    gridZ >= 0 /\ gridZ < lv.rows /\ gridX >= 0 /\ gridX < lv.cols

\* isWall with the points outside the grid taken for open ground
isWallInsideOnly(lv, x, z) ==
    LET gridX == gridIndex(x)
        gridZ == gridIndex(z)
    IN  IF inGrid(lv, gridX, gridZ)
        THEN lv.grid[gridZ + 1][gridX + 1].isWall
        ELSE FALSE

\* Level.isWall
isWall(lv, x, z) ==
    LET gridX == gridIndex(x)
        gridZ == gridIndex(z)
    IN  IF inGrid(lv, gridX, gridZ)
        THEN lv.grid[gridZ + 1][gridX + 1].isWall
        ELSE TRUE

\* Level.getFloorHeight
getFloorHeight(lv, x, z) ==
    LET gridX == gridIndex(x)
        gridZ == gridIndex(z)
    IN  IF inGrid(lv, gridX, gridZ)
        THEN lv.grid[gridZ + 1][gridX + 1].height
        ELSE voidHeight

\* The scan of getStartPosition without its test of the height
RECURSIVE startFromAnyFloor(_, _, _)
startFromAnyFloor(lv, z, x) ==
    IF z >= lv.rows THEN [x |-> 0, z |-> 0]
    ELSE IF x >= lv.cols THEN startFromAnyFloor(lv, z + 1, 0)
    ELSE IF ~lv.grid[z + 1][x + 1].isWall
         THEN [x |-> x * cellSize, z |-> z * cellSize]
         ELSE startFromAnyFloor(lv, z, x + 1)

\* The cells (z, x), 0-based, from (z0, x0) on in row-major order that are
\* not walls and have height 0: the first one is the start cell.
RECURSIVE startFrom(_, _, _)
startFrom(lv, z, x) ==
    IF z >= lv.rows THEN [x |-> 0, z |-> 0]
    ELSE IF x >= lv.cols THEN startFrom(lv, z + 1, 0)
    ELSE IF ~lv.grid[z + 1][x + 1].isWall /\ lv.grid[z + 1][x + 1].height = 0
         THEN [x |-> x * cellSize, z |-> z * cellSize]
         ELSE startFrom(lv, z, x + 1)

\* Level.getStartPosition
getStartPosition(lv) == startFrom(lv, 0, 0)

----------------------------------------------------------------------------
(* Player (src/src/player.js)                                              *)

height == 32              \* 1.6: eye height
gravity == 600            \* 30.0 units/s^2
jumpStrength == 240       \* 12.0 units/s
stepHeight == 22          \* 1.1: max height the player can step up
acceleration == 8000      \* 400.0 units/s^2

\* The frame times the model draws delta from, in tenths of a second: 0 (two
\* frames within one clock tick), 0.1 s (the friction term cancels the
\* velocity) and 0.2 s (the friction term reverses it).
Dts == {0, 1, 2}

\* The directions the camera takes: yaw in quarter turns (facing -Z and
\* facing +X), no pitch.
Yaws == {0, 3}

\* Horizontal speeds beyond this (twentieths of a unit per second) are not
\* explored: 0.2 s frames with alternating keys grow the speed without limit.
MaxSpeed == 1600

Abs(a) == IF a < 0 THEN -a ELSE a
Sign(a) == IF a < 0 THEN -1 ELSE IF a > 0 THEN 1 ELSE 0
Num(b) == IF b THEN 1 ELSE 0

cosQ(q) == CASE q = 0 -> 1 [] q = 1 -> 0 [] q = 2 -> -1 [] OTHER -> 0
sinQ(q) == CASE q = 0 -> 0 [] q = 1 -> 1 [] q = 2 -> 0 [] OTHER -> -1

\* new Vector3(0, 0, -1).applyQuaternion(q) and new Vector3(1, 0, 0)
\* .applyQuaternion(q) for a rotation of yw quarter turns about Y, flattened
\* and normalized: unit vectors with integer components.
forwardOf(yw) == [x |-> -sinQ(yw), z |-> -cosQ(yw)]
rightOf(yw) == [x |-> cosQ(yw), z |-> -sinQ(yw)]

\* this.direction.normalize() for direction.x, direction.z in {-1, 0, 1}, in
\* tenths: (0,0) stays (0,0), an axis direction has length 1 already, and a
\* diagonal gets components of +-0.7071, which is 0.7 to the tenth.
normalizeDir(dx, dz) ==
    IF dx # 0 /\ dz # 0 THEN [x |-> 7 * dx, z |-> 7 * dz]
    ELSE [x |-> 10 * dx, z |-> 10 * dz]

\* _canMoveTo without its floor-height test: walls alone stop the player
canMoveToWallsOnly(lv, x, z, currentY, step) == ~isWall(lv, x, z)

\* _canMoveTo allowing twice the step height
canMoveToTwoSteps(lv, x, z, currentY, step) ==
    ~isWall(lv, x, z) /\ getFloorHeight(lv, x, z) <= currentY + 2 * step

\* Player._canMoveTo with the step height as a parameter
canMoveToStep(lv, x, z, currentY, step) ==
    IF isWall(lv, x, z) THEN FALSE
    ELSE IF getFloorHeight(lv, x, z) > currentY + step THEN FALSE
    ELSE TRUE

\* Player._canMoveTo
canMoveTo(lv, x, z, currentY) == canMoveToStep(lv, x, z, currentY, stepHeight)

\* The velocity of Player.update before the collision test: friction,
\* gravity, then the acceleration of the keys held.
accelerated(ks, vel, delta) ==
    LET vx1 == vel.x - (vel.x * 10 * delta) \div 10
        vz1 == vel.z - (vel.z * 10 * delta) \div 10
        vy1 == vel.y - (gravity * delta) \div 10
        dir == normalizeDir(Num(ks.moveLeft) - Num(ks.moveRight),
                            Num(ks.moveBackward) - Num(ks.moveForward))
    IN  [x |-> IF ks.moveLeft \/ ks.moveRight
               THEN vx1 - (dir.x * acceleration * delta) \div 100 ELSE vx1,
         y |-> vy1,
         z |-> IF ks.moveForward \/ ks.moveBackward
               THEN vz1 - (dir.z * acceleration * delta) \div 100 ELSE vz1]

\* The floor test without the eye height: the eye, not the feet, lands
belowFloorAtEye(newY, floorY) == newY < floorY

\* "if (newY < floorY + this.height)": the player would sink into the floor
belowFloor(newY, floorY) == newY < floorY + height

\* The Z check made at the X the update started from
zCheckOldX(positionX, currentX) == currentX

\* The X argument of the Z check: controlObj.position.x, which the X check
\* has moved already if it allowed the move (currentX: currentPos.x)
zCheckX(positionX, currentX) == positionX

\* Player.update(delta) on a player p = [isLocked, keys, yaw, pos, velocity,
\* onGround]: the player after it, with what the update computed in .info.
playerUpdate(lv, p, delta) ==
    IF ~p.isLocked
    THEN [pos |-> p.pos, velocity |-> p.velocity, onGround |-> p.onGround,
          info |-> [ran |-> FALSE, deltaX |-> 0, deltaZ |-> 0, deltaY |-> 0,
                    okX |-> FALSE, okZ |-> FALSE, currentFloorY |-> 0]]
    ELSE
    LET v == accelerated(p.keys, p.velocity, delta)
        forward == forwardOf(p.yaw)
        right == rightOf(p.yaw)
        deltaX == ((right.x * v.x + forward.x * v.z) * delta) \div 10
        deltaZ == ((right.z * v.x + forward.z * v.z) * delta) \div 10
        deltaY == (v.y * delta) \div 10
        currentPos == p.pos
        currentFloorY == getFloorHeight(lv, currentPos.x, currentPos.z)
        okX == canMoveTo(lv, currentPos.x + deltaX, currentPos.z, currentFloorY)
        x1 == IF okX THEN currentPos.x + deltaX ELSE currentPos.x
        vx1 == IF okX THEN v.x ELSE 0
        okZ == canMoveTo(lv, zCheckX(x1, currentPos.x), currentPos.z + deltaZ,
                         currentFloorY)
        z1 == IF okZ THEN currentPos.z + deltaZ ELSE currentPos.z
        vz1 == IF okZ THEN v.z ELSE 0
        y1 == currentPos.y + deltaY
        newFloorY == getFloorHeight(lv, x1, z1)
        snap == belowFloor(y1, newFloorY)
    IN  [pos |-> [x |-> x1, y |-> IF snap THEN newFloorY + height ELSE y1,
                  z |-> z1],
         velocity |-> [x |-> vx1, y |-> IF snap THEN 0 ELSE v.y, z |-> vz1],
         onGround |-> snap,
         info |-> [ran |-> TRUE, deltaX |-> deltaX, deltaZ |-> deltaZ,
                   deltaY |-> deltaY, okX |-> okX, okZ |-> okZ,
                   currentFloorY |-> currentFloorY]]

\* Player.jump
jump(p) ==
    IF p.onGround
    THEN [velocity |-> [p.velocity EXCEPT !.y = jumpStrength], onGround |-> FALSE]
    ELSE [velocity |-> p.velocity, onGround |-> p.onGround]

thePlayer == [isLocked |-> isLocked, keys |-> keys, yaw |-> yaw, pos |-> pos,
              velocity |-> velocity, onGround |-> onGround]

----------------------------------------------------------------------------
(* Monster (src/src/monster.js 3-150)                                      *)

detectionRange == 600     \* 30: "dist < 30" of Monster.update
strafeRange == 400        \* 20: "dist < 20" of Monster.update
minDistance == 160        \* 8.0: don't get closer than this
retreatMargin == 40       \* 2.0: back away below minDistance - 2.0

\* The values the model draws 1.0 + Math.random() * 2.0 from (tenths of a
\* second) and the two values of strafeDir.
StrafeTimes == {10, 20}
StrafeDirs == {1, -1}
Rnd == [timer : StrafeTimes, dir : StrafeDirs]

\* The largest r with r * r <= n, for 0 <= n, searched between lo and hi.
RECURSIVE sqrtBetween(_, _, _)
sqrtBetween(n, lo, hi) ==
    IF lo >= hi THEN lo
    ELSE LET mid == (lo + hi + 1) \div 2
         IN  IF mid * mid <= n THEN sqrtBetween(n, mid, hi)
             ELSE sqrtBetween(n, lo, mid - 1)

isqrt(n) == sqrtBetween(n, 0, 46340)

\* a / b to the nearest integer, for b > 0
roundDiv(a, b) == (2 * a + b) \div (2 * b)

\* Vector3.normalize of (x, 0, z), the result in thousandths; the zero vector
\* stays zero (three.js divides by length() || 1).
normalize(x, z) ==
    LET len10 == isqrt(100 * (x * x + z * z))
    IN  IF len10 = 0 THEN [x |-> 0, z |-> 0]
        ELSE [x |-> roundDiv(x * 10000, len10), z |-> roundDiv(z * 10000, len10)]

\* The square of a.distanceTo(b)
distSq(a, b) ==
    (a.x - b.x) * (a.x - b.x) + (a.y - b.y) * (a.y - b.y)
    + (a.z - b.z) * (a.z - b.z)

\* new Monster(scene, type, x, z, level).  deaths and damageCalls count the
\* executions of die and takeDamage on it.
Monster(type, x, z) ==
    [type |-> type,
     position |-> [x |-> x, y |-> 0, z |-> z],
     health |-> IF type = "demon" THEN 100 ELSE 40,
     speed |-> IF type = "demon" THEN 120 ELSE 60,
     state |-> "idle",
     mesh |-> [x |-> x, y |-> 0, z |-> z,
               scaleY |-> IF type = "demon" THEN 50 ELSE 40],
     strafeTimer |-> 0,
     strafeDir |-> 1,
     deaths |-> 0,
     damageCalls |-> 0]

\* The moveVec of the chase with no range in which the monster holds its
\* distance: it backs away whenever it is not farther than minDistance
chaseMoveNoHold(m, delta, direction, dSq, rnd) ==
    LET approach ==
            IF dSq > minDistance * minDistance THEN direction
            ELSE [x |-> -direction.x, z |-> -direction.z]
        strafing == dSq < strafeRange * strafeRange
        timer1 == m.strafeTimer - delta
        reroll == strafing /\ timer1 <= 0
        timer2 == IF reroll THEN rnd.timer ELSE IF strafing THEN timer1
                  ELSE m.strafeTimer
        dir2 == IF reroll THEN rnd.dir ELSE m.strafeDir
        right == normalize(direction.z, -direction.x)
    IN  [x |-> IF strafing THEN approach.x + (right.x * dir2 * 8) \div 10
               ELSE approach.x,
         z |-> IF strafing THEN approach.z + (right.z * dir2 * 8) \div 10
               ELSE approach.z,
         strafeTimer |-> timer2,
         strafeDir |-> dir2]

\* The moveVec of Monster.update in state chase, before moveVec.normalize(),
\* and the strafe timer and direction after it: direction is the unit vector
\* to the player, dSq the squared distance, rnd the values Math.random gives.
chaseMove(m, delta, direction, dSq, rnd) ==
    LET approach ==
            IF dSq > minDistance * minDistance THEN direction
            ELSE IF dSq < (minDistance - retreatMargin) * (minDistance - retreatMargin)
                 THEN [x |-> -direction.x, z |-> -direction.z]
                 ELSE [x |-> 0, z |-> 0]
        strafing == dSq < strafeRange * strafeRange
        timer1 == m.strafeTimer - delta
        reroll == strafing /\ timer1 <= 0
        timer2 == IF reroll THEN rnd.timer ELSE IF strafing THEN timer1
                  ELSE m.strafeTimer
        dir2 == IF reroll THEN rnd.dir ELSE m.strafeDir
        \* (0, 1, 0) x direction = (direction.z, 0, -direction.x)
        right == normalize(direction.z, -direction.x)
    IN  [x |-> IF strafing THEN approach.x + (right.x * dir2 * 8) \div 10
               ELSE approach.x,
         z |-> IF strafing THEN approach.z + (right.z * dir2 * 8) \div 10
               ELSE approach.z,
         strafeTimer |-> timer2,
         strafeDir |-> dir2]

\* Whether Monster.update draws new strafe values: the monster is not dead,
\* chases (or starts to), is within the strafe range and its timer runs out.
rerolls(m, delta, playerPos) ==
    LET dSq == distSq(m.position, playerPos)
    IN  /\ m.state # "dead"
        /\ m.state = "chase" \/ dSq < detectionRange * detectionRange
        /\ dSq < strafeRange * strafeRange
        /\ m.strafeTimer - delta <= 0

\* The chase branch of Monster.update up to "Apply movement": the normalized
\* moveVec (thousandths), the candidate position nextX, nextZ, and the
\* strafe timer and direction after it
monsterCandidate(m, delta, playerPos, rnd) ==
    LET dSq == distSq(m.position, playerPos)
        direction == normalize(playerPos.x - m.position.x,
                               playerPos.z - m.position.z)
        mv == chaseMove(m, delta, direction, dSq, rnd)
        moveVec == normalize(mv.x, mv.z)
        moveDist == (m.speed * delta) \div 10
    IN  [moveVec |-> moveVec,
         nextX |-> m.position.x + roundDiv(moveVec.x * moveDist, 1000),
         nextZ |-> m.position.z + roundDiv(moveVec.z * moveDist, 1000),
         strafeTimer |-> mv.strafeTimer,
         strafeDir |-> mv.strafeDir]

\* The height of a monster's centre above the floor, the same for both kinds
centreOffsetImp(type) == 20

\* The height of a monster's centre above the floor
centreOffset(type) == IF type = "demon" THEN 25 ELSE 20

\* "Collision with walls" with the Z move tested at the x the monster had
\* before its X move
wallCheckOldX(positionX, currentX) == currentX

\* The x of the Z test of "Collision with walls": this.position.x, which the
\* X test has already moved if it let the monster through
wallCheckX(positionX, currentX) == positionX

\* Monster.update(delta, player)
monsterUpdate(lv, m, delta, playerPos, rnd) ==
    IF m.state = "dead" THEN m
    ELSE
    LET dSq == distSq(m.position, playerPos)
        state1 == IF dSq < detectionRange * detectionRange THEN "chase"
                  ELSE m.state
        c == monsterCandidate(m, delta, playerPos, rnd)
        x1 == IF state1 = "chase" /\ ~isWall(lv, c.nextX, m.position.z)
              THEN c.nextX ELSE m.position.x
        z1 == IF state1 = "chase"
                 /\ ~isWall(lv, wallCheckX(x1, m.position.x), c.nextZ)
              THEN c.nextZ ELSE m.position.z
        floorH == getFloorHeight(lv, x1, z1)
        position1 == [x |-> x1, y |-> floorH + centreOffset(m.type), z |-> z1]
    IN  [m EXCEPT !.state = state1,
                  !.strafeTimer = IF state1 = "chase" THEN c.strafeTimer ELSE @,
                  !.strafeDir = IF state1 = "chase" THEN c.strafeDir ELSE @,
                  !.position = position1,
                  !.mesh = [@ EXCEPT !.x = position1.x, !.y = position1.y,
                                     !.z = position1.z]]

\* die bringing the health of the dead monster back to 0
dieClamped(m) ==
    [m EXCEPT !.state = "dead",
              !.mesh = [@ EXCEPT !.scaleY = 10, !.y = @ - 10],
              !.health = 0,
              !.deaths = @ + 1]

\* Monster.die
die(m) ==
    [m EXCEPT !.state = "dead",
              !.mesh = [@ EXCEPT !.scaleY = 10, !.y = @ - 10],
              !.deaths = @ + 1]

\* takeDamage taking the amount off the starting health, not off the health
takeDamageFromStart(m, amount) ==
    [m EXCEPT !.health = (IF m.type = "demon" THEN 100 ELSE 40) - amount,
              !.damageCalls = @ + 1]

\* Monster.takeDamage(amount), up to its setTimeout: the health goes down now
takeDamage(m, amount) ==
    [m EXCEPT !.health = @ - amount, !.damageCalls = @ + 1]

\* The callback takeDamage leaves with setTimeout(..., 100)
damageCallback(m) == IF m.health <= 0 THEN die(m) ELSE m

----------------------------------------------------------------------------
(* The shot of main.js (player.onShoot, 58-88)                             *)

shotDamage == 20          \* monster.takeDamage(20)
shotRange == 1000         \* dist < 50

\* angle < 0.2 for angle = playerDir.angleTo(toMonster), playerDir a unit
\* vector d and toMonster = t: the angle is under 0.2 rad iff its cosine,
\* d.t / |t|, is over cos 0.2, i.e. d.t > 0 and (d.t)^2 > 0.9605 |t|^2
\* (cos^2 0.2 = 0.96053).  angleTo gives pi/2 for a zero vector.
inCone(d, t) ==
    LET dot == d.x * t.x + d.z * t.z
        lenSq == t.x * t.x + t.y * t.y + t.z * t.z
    IN  lenSq > 0 /\ dot > 0 /\ dot * dot * 2000 > 1921 * lenSq

\* Whether the loop of onShoot hits monster m
shotHits(m, playerPos, yw) ==
    LET toMonster == [x |-> m.position.x - playerPos.x,
                      y |-> m.position.y - playerPos.y,
                      z |-> m.position.z - playerPos.z]
        dSq == toMonster.x * toMonster.x + toMonster.y * toMonster.y
               + toMonster.z * toMonster.z
    IN  /\ m.state # "dead"
        /\ dSq < shotRange * shotRange
        /\ inCone(forwardOf(yw), toMonster)

\* The loop of onShoot without its break: the last monster it hits
RECURSIVE shotTargetLast(_, _, _, _)
shotTargetLast(ms, i, playerPos, yw) ==
    IF i > Len(ms) THEN 0
    ELSE LET later == shotTargetLast(ms, i + 1, playerPos, yw)
         IN  IF later # 0 THEN later
             ELSE IF shotHits(ms[i], playerPos, yw) THEN i ELSE 0

\* The monster the loop of onShoot damages: the first one, in list order,
\* that it hits (0: none; the loop breaks after the first hit)
RECURSIVE shotTargetFrom(_, _, _, _)
shotTargetFrom(ms, i, playerPos, yw) ==
    IF i > Len(ms) THEN 0
    ELSE IF shotHits(ms[i], playerPos, yw) THEN i
    ELSE shotTargetFrom(ms, i + 1, playerPos, yw)

shotTarget(ms, playerPos, yw) == shotTargetFrom(ms, 1, playerPos, yw)

----------------------------------------------------------------------------
(* Projectile (src/src/monster.js 155-285)                                 *)
(*                                                                         *)
(* The model keeps the projectile on a line parallel to the X axis         *)
(* (direction (1,0,0) or (-1,0,0)); the camera handed to update looks      *)
(* along the same line, so that a monster's sprite is a rectangle facing   *)
(* the ray.                                                                *)

projectileSpeed == 800    \* 40.0 units/s
maxTravel == 20000        \* 1000: "position.length() > 1000"
projectileDamage == 20    \* monster.takeDamage(20)

\* new Projectile(scene, position, direction); destroys counts the
\* executions of destroy on it and fired keeps the point it was fired from.
Projectile(position, direction) ==
    [position |-> position, lastPosition |-> position, direction |-> direction,
     alive |-> TRUE, destroys |-> 0, fired |-> position]

\* The meshes generate() adds to levelGroup for cell (z, x) that a ray along
\* X can meet, in the order it adds them: the block of a wall cell (8 high,
\* centred at y = 2), and for another cell the west and east side panels of
\* _buildSides, built where the neighbour is lower or void and is not a wall.
\* Floors, ceilings and the north and south panels are parallel to the ray;
\* item sprites are not meshes.  face: the x of the surface and the direction
\* of its outward normal.
cellMeshes(lv, z, x) ==
    LET cell == lv.grid[z + 1][x + 1]
        posX == x * cellSize
        posZ == z * cellSize
        half == cellSize \div 2
        neighborH(nx) ==
            IF inGrid(lv, nx, z) THEN lv.grid[z + 1][nx + 1].height
            ELSE voidHeight
        hasSide(nx) ==
            /\ ~(inGrid(lv, nx, z) /\ lv.grid[z + 1][nx + 1].isWall)
            /\ cell.height > neighborH(nx)
        side(nx, dx) ==
            IF hasSide(nx)
            THEN <<[kind |-> "side", z |-> z, x |-> x, faces |-> {dx},
                    x0 |-> posX + dx * half, x1 |-> posX + dx * half,
                    y0 |-> neighborH(nx), y1 |-> cell.height,
                    z0 |-> posZ - half, z1 |-> posZ + half]>>
            ELSE <<>>
    IN  IF cell.isWall
        THEN <<[kind |-> "wall", z |-> z, x |-> x, faces |-> {-1, 1},
                x0 |-> posX - half, x1 |-> posX + half,
                y0 |-> 40 - 80, y1 |-> 40 + 80,
                z0 |-> posZ - half, z1 |-> posZ + half]>>
        ELSE side(x - 1, -1) \o side(x + 1, 1)

\* level.levelGroup.children.filter(c => c.isMesh), as far as a ray along X
\* can meet them, in the order of generate()
RECURSIVE levelMeshesFrom(_, _, _)
levelMeshesFrom(lv, z, x) ==
    IF z >= lv.rows THEN <<>>
    ELSE IF x >= lv.cols THEN levelMeshesFrom(lv, z + 1, 0)
    ELSE cellMeshes(lv, z, x) \o levelMeshesFrom(lv, z, x + 1)

levelMeshes(lv) == levelMeshesFrom(lv, 0, 0)

\* The intersection of the ray from origin along (sx, 0, 0), up to distance
\* far, with a level mesh: the front face the ray runs against (outward
\* normal -sx), if the ray's line passes through it; << >> if none.
rayMesh(origin, sx, far, mesh) ==
    LET faceX == IF sx = 1 THEN mesh.x0 ELSE mesh.x1
        distance == (faceX - origin.x) * sx
    IN  IF /\ (-sx) \in mesh.faces
           /\ origin.y >= mesh.y0 /\ origin.y <= mesh.y1
           /\ origin.z >= mesh.z0 /\ origin.z <= mesh.z1
           /\ distance >= 0 /\ distance <= far
        THEN <<[distance |-> distance, kind |-> mesh.kind, object |-> <<mesh.z, mesh.x>>,
                point |-> [origin EXCEPT !.x = faceX]]>>
        ELSE <<>>

\* The width of a monster's sprite (sprite.scale.x)
spriteWidth(type) == IF type = "demon" THEN 50 ELSE 40

\* The intersection of the ray with the sprite of monster i of the list
raySprite(origin, sx, far, ms, i) ==
    LET mesh == ms[i].mesh
        distance == (mesh.x - origin.x) * sx
    IN  IF /\ 2 * Abs(origin.y - mesh.y) <= mesh.scaleY
           /\ 2 * Abs(origin.z - mesh.z) <= spriteWidth(ms[i].type)
           /\ distance >= 0 /\ distance <= far
        THEN <<[distance |-> distance, kind |-> "monster", object |-> i,
                point |-> [origin EXCEPT !.x = mesh.x]]>>
        ELSE <<>>

\* hits with h inserted before the first hit that is farther than h
RECURSIVE insertHit(_, _)
insertHit(hits, h) ==
    IF hits = <<>> THEN <<h>>
    ELSE IF Head(hits).distance > h.distance THEN <<h>> \o hits
    ELSE <<Head(hits)>> \o insertHit(Tail(hits), h)

\* Array.sort by distance (stable), as Raycaster.intersectObjects returns
\* its intersections
RECURSIVE sortHits(_)
sortHits(hits) ==
    IF hits = <<>> THEN <<>>
    ELSE insertHit(sortHits(SubSeq(hits, 1, Len(hits) - 1)), hits[Len(hits)])

RECURSIVE meshHitsFrom(_, _, _, _, _)
meshHitsFrom(origin, sx, far, meshes, k) ==
    IF k > Len(meshes) THEN <<>>
    ELSE rayMesh(origin, sx, far, meshes[k])
         \o meshHitsFrom(origin, sx, far, meshes, k + 1)

\* this.raycaster.intersectObjects(levelMeshes)
levelHitsOf(lv, origin, sx, far) ==
    sortHits(meshHitsFrom(origin, sx, far, levelMeshes(lv), 1))

RECURSIVE spriteHitsFrom(_, _, _, _, _)
spriteHitsFrom(origin, sx, far, ms, i) ==
    IF i > Len(ms) THEN <<>>
    ELSE (IF ms[i].state # "dead" THEN raySprite(origin, sx, far, ms, i) ELSE <<>>)
         \o spriteHitsFrom(origin, sx, far, ms, i + 1)

\* this.raycaster.intersectObjects(monsterMeshes), monsterMeshes the meshes
\* of the monsters that are not dead
monsterHitsOf(origin, sx, far, ms) ==
    sortHits(spriteHitsFrom(origin, sx, far, ms, 1))

\* "Find closest hit" without its comparison of distances: a monster hit
\* goes before any wall hit
closestHitMonsterFirst(levelHits, monsterHits) ==
    IF Len(monsterHits) > 0 THEN <<monsterHits[1]>>
    ELSE IF Len(levelHits) > 0 THEN <<levelHits[1]>> ELSE <<>>

\* "Find closest hit" without its comparison of distances: a wall hit goes
\* before any monster hit
closestHitWallFirst(levelHits, monsterHits) ==
    IF Len(levelHits) > 0 THEN <<levelHits[1]>>
    ELSE IF Len(monsterHits) > 0 THEN <<monsterHits[1]>> ELSE <<>>

\* "Find closest hit" of Projectile.update: << >> or the one hit acted on
closestHit(levelHits, monsterHits) ==
    LET wallHit == IF Len(levelHits) > 0 THEN <<levelHits[1]>> ELSE <<>>
    IN  IF Len(monsterHits) > 0
        THEN IF wallHit = <<>> \/ monsterHits[1].distance < wallHit[1].distance
             THEN <<monsterHits[1]>>
             ELSE wallHit
        ELSE wallHit

\* Projectile.destroy
destroy(p) == [p EXCEPT !.alive = FALSE, !.destroys = @ + 1]

\* monsters.find(m => m.mesh === object): the place in the list of the
\* monster whose mesh object is, 0 if no monster of the list has it.  A
\* monster's mesh is named by the monster's place in the list.
findMonster(ms, object) == IF object \in 1..Len(ms) THEN object ELSE 0

\* onHit calling takeDamage on whatever find returned: with no monster
\* found the call throws, before destroy
onHitUnguarded(p, ms, hit, type) ==
    LET monster == IF type = "monster" THEN findMonster(ms, hit.object) ELSE 0
    IN  IF type = "monster" /\ monster = 0
        THEN [proj |-> p, monsters |-> ms, damaged |-> 0, thrown |-> TRUE]
        ELSE [proj |-> destroy(p),
              monsters |-> IF monster # 0
                           THEN [ms EXCEPT ![monster] = takeDamage(@, projectileDamage)]
                           ELSE ms,
              damaged |-> monster, thrown |-> FALSE]

\* Projectile.onHit(hit, type, monsters): the projectile and the monsters
\* after it, the monster it damaged (0: none) and whether it threw
onHit(p, ms, hit, type) ==
    LET monster == IF type = "monster" THEN findMonster(ms, hit.object) ELSE 0
    IN  [proj |-> destroy(p),
         monsters |-> IF monster # 0
                      THEN [ms EXCEPT ![monster] = takeDamage(@, projectileDamage)]
                      ELSE ms,
         damaged |-> monster, thrown |-> FALSE]

\* A projectile that is never cleaned up for being too far
tooFarNever(position) == FALSE

\* "Cleanup if too far": this.position.length() > 1000
tooFar(position) ==
    position.x * position.x + position.y * position.y
    + position.z * position.z > maxTravel * maxTravel

\* The collision check made whatever the displacement
displacedAlways(dist) == TRUE

\* "if (dist > 0)": whether the collision check is made, dist the length of
\* the displacement
displaced(dist) == dist > 0

\* Projectile.update past its "not alive" return: the projectile, the
\* monsters after it; hit is << >> or the hit that onHit was called with
\* (the impact effect is spawned at its point), damaged the index of the
\* monster onHit damaged, tested whether the intersection test was made.
projectileStep(lv, ms, p, delta) ==
    LET lastPosition == p.position
        dist == (projectileSpeed * delta) \div 10
        position == [lastPosition EXCEPT !.x = @ + p.direction.x * dist]
        tested == displaced(dist)
        hit == IF tested
               THEN closestHit(levelHitsOf(lv, lastPosition, p.direction.x, dist),
                               monsterHitsOf(lastPosition, p.direction.x, dist, ms))
               ELSE <<>>
        p1 == [p EXCEPT !.lastPosition = lastPosition, !.position = position]
        h == IF hit # <<>>
             THEN onHit(p1, ms, hit[1],
                        IF hit[1].kind = "monster" THEN "monster" ELSE "wall")
             ELSE [proj |-> p1, monsters |-> ms, damaged |-> 0, thrown |-> FALSE]
        p3 == IF tooFar(position) THEN destroy(h.proj) ELSE h.proj
    IN  [proj |-> p3, monsters |-> h.monsters, hit |-> hit, damaged |-> h.damaged,
         tested |-> tested]

\* Projectile.update without its "not alive" return
projectileUpdateAlways(lv, ms, p, delta) == projectileStep(lv, ms, p, delta)

\* Projectile.update(delta, level, monsters, camera)
projectileUpdate(lv, ms, p, delta) ==
    IF ~p.alive
    THEN [proj |-> p, monsters |-> ms, hit |-> <<>>, damaged |-> 0, tested |-> FALSE]
    ELSE projectileStep(lv, ms, p, delta)

----------------------------------------------------------------------------
(* The program (src/src/main.js)                                           *)

\* The maps the model runs on, in the codes of mapData (main.js 13-26).
\* MapYard has every kind of cell and no monster: the start cell in the
\* middle, a pit north of it, a wall west of it, a step and a platform at
\* the corners.  MapArena is a corridor
\* along X from the start cell with a demon at its far end, beyond the
\* detection range, and an imp in a niche nearer to the player: the demon is
\* first in the monsters list, the imp is the closer one, and both are within
\* the shot's range and cone when the player faces +X.
MapYard ==
    << <<3, 5, 4>>,
       <<1, 0, 2>>,
       <<9, 0, 3>> >>

MapArena ==
    << <<0, 0, 0, 0, 0, 0, 0, 0, 0, 7>>,
       <<1, 1, 1, 1, 1, 1, 6, 1, 1, 1>> >>

\* Frames animated, pending damage callbacks per monster and takeDamage calls
\* per monster that the model explores
MaxFrames == 3
MaxPending == 2
MaxDamageCalls == 6

KeyCodes == {"KeyW", "KeyA", "KeyS", "KeyD"}

noKeys == [moveForward |-> FALSE, moveBackward |-> FALSE,
           moveLeft |-> FALSE, moveRight |-> FALSE]

\* The flag a key code sets (onKeyDown) or clears (onKeyUp)
flagOf(code) ==
    CASE code = "KeyW" -> "moveForward"
      [] code = "KeyA" -> "moveLeft"
      [] code = "KeyS" -> "moveBackward"
      [] code = "KeyD" -> "moveRight"

\* init(): the level parsed from the map, the player placed at the start
\* position at eye height, one monster per spawn record, in their order.
InitMap(mapData) ==
    /\ level = parseMap(mapData)
    /\ qx = 0 /\ qz = 0 /\ qWall = FALSE /\ qFloor = 0
    /\ isLocked = FALSE
    /\ keys = noKeys
    /\ yaw = 0
    /\ LET startPos == getStartPosition(parseMap(mapData))
       IN  pos = [x |-> startPos.x, y |-> height, z |-> startPos.z]
    /\ velocity = [x |-> 0, y |-> 0, z |-> 0]
    /\ onGround = FALSE
    /\ LET spawns == parseMap(mapData).monsterSpawns
       IN  /\ monsters = [i \in 1..Len(spawns) |->
                            Monster(spawns[i].type, spawns[i].x, spawns[i].z)]
           /\ timers = [i \in 1..Len(spawns) |-> 0]
    /\ proj = <<>>
    /\ frames = 0
    /\ last = [op |-> "init"]

\* startScreen click: player.lock()
Lock ==
    /\ ~isLocked
    /\ isLocked' = TRUE
    /\ UNCHANGED <<levelVars, queryVars, keys, yaw, pos, velocity, onGround,
                   monsterVars, projVars, frames, last>>

\* The browser releases the pointer lock (Escape)
Unlock ==
    /\ isLocked
    /\ isLocked' = FALSE
    /\ UNCHANGED <<levelVars, queryVars, keys, yaw, pos, velocity, onGround,
                   monsterVars, projVars, frames, last>>

\* onKeyDown for a movement key
KeyDown(code) ==
    /\ keys' = [keys EXCEPT ![flagOf(code)] = TRUE]
    /\ UNCHANGED <<levelVars, queryVars, isLocked, yaw, pos, velocity, onGround,
                   monsterVars, projVars, frames, last>>

\* onKeyUp for a movement key
KeyUp(code) ==
    /\ keys' = [keys EXCEPT ![flagOf(code)] = FALSE]
    /\ UNCHANGED <<levelVars, queryVars, isLocked, yaw, pos, velocity, onGround,
                   monsterVars, projVars, frames, last>>

\* onKeyDown for Space: this.jump()
KeySpace ==
    /\ velocity' = jump(thePlayer).velocity
    /\ onGround' = jump(thePlayer).onGround
    /\ last' = [op |-> "jump", jumped |-> onGround]
    /\ UNCHANGED <<levelVars, queryVars, isLocked, keys, yaw, pos,
                   monsterVars, projVars, frames>>

\* A mouse move while the pointer is locked turns the camera
MouseMove(yw) ==
    /\ isLocked
    /\ yaw' = yw
    /\ UNCHANGED <<levelVars, queryVars, isLocked, keys, pos, velocity, onGround,
                   monsterVars, projVars, frames, last>>

\* What Math.random can give the monsters in one frame: a pair of values for
\* each monster whose update draws them, and a fixed pair (never read) for
\* the others.
RndFor(ms, delta, playerPos) ==
    {rnd \in [1..Len(ms) -> Rnd] :
        \A i \in 1..Len(ms) :
            ~rerolls(ms[i], delta, playerPos) => rnd[i] = [timer |-> 10, dir |-> 1]}

\* animate() with the monsters updated against the position the player had
\* before its own update of the frame
AnimateStale(delta) ==
    /\ frames < MaxFrames
    /\ LET v == accelerated(keys, velocity, delta)
       IN  isLocked => Abs(v.x) <= MaxSpeed /\ Abs(v.z) <= MaxSpeed
    /\ LET u == playerUpdate(level, thePlayer, delta)
       IN  /\ pos' = u.pos
           /\ velocity' = u.velocity
           /\ onGround' = u.onGround
           /\ \E rnd \in RndFor(monsters, delta, pos) :
                  monsters' = [i \in 1..Len(monsters) |->
                                 monsterUpdate(level, monsters[i], delta, pos, rnd[i])]
           /\ last' = [op |-> "animate", delta |-> delta, info |-> u.info]
    /\ frames' = frames + 1
    /\ UNCHANGED <<levelVars, queryVars, isLocked, keys, yaw, timers, projVars>>

\* animate(): player.update(delta), then every monster's update(delta,
\* player), in one task.  rnd: what Math.random gives each monster.
Animate(delta) ==
    /\ frames < MaxFrames
    /\ LET v == accelerated(keys, velocity, delta)
       IN  isLocked => Abs(v.x) <= MaxSpeed /\ Abs(v.z) <= MaxSpeed
    /\ LET u == playerUpdate(level, thePlayer, delta)
       IN  /\ pos' = u.pos
           /\ velocity' = u.velocity
           /\ onGround' = u.onGround
           /\ \E rnd \in RndFor(monsters, delta, u.pos) :
                  monsters' = [i \in 1..Len(monsters) |->
                                 monsterUpdate(level, monsters[i], delta, u.pos, rnd[i])]
           /\ last' = [op |-> "animate", delta |-> delta, info |-> u.info]
    /\ frames' = frames + 1
    /\ UNCHANGED <<levelVars, queryVars, isLocked, keys, yaw, timers, projVars>>

\* mousedown: if the pointer is locked, shoot(), which calls onShoot: the
\* first monster the loop hits takes 20 damage and a callback is left.
MouseDown ==
    LET target == IF isLocked THEN shotTarget(monsters, pos, yaw) ELSE 0
    IN  /\ target # 0 => timers[target] < MaxPending
        /\ monsters' = IF target # 0
                       THEN [monsters EXCEPT ![target] = takeDamage(@, shotDamage)]
                       ELSE monsters
        /\ timers' = IF target # 0 THEN [timers EXCEPT ![target] = @ + 1]
                     ELSE timers
        /\ last' = [op |-> "shot", target |-> target]
        /\ UNCHANGED <<levelVars, queryVars, playerVars, projVars, frames>>

\* A call of monsters[i].takeDamage(amount) from outside the shot
TakeDamage(i, amount) ==
    /\ timers[i] < MaxPending
    /\ monsters[i].damageCalls < MaxDamageCalls
    /\ monsters' = [monsters EXCEPT ![i] = takeDamage(@, amount)]
    /\ timers' = [timers EXCEPT ![i] = @ + 1]
    /\ last' = [op |-> "takeDamage"]
    /\ UNCHANGED <<levelVars, queryVars, playerVars, projVars, frames>>

\* The callback of a takeDamage on monster i runs
TimerFire(i) ==
    /\ timers[i] > 0
    /\ timers' = [timers EXCEPT ![i] = @ - 1]
    /\ monsters' = [monsters EXCEPT ![i] = damageCallback(@)]
    /\ last' = [op |-> "timer"]
    /\ UNCHANGED <<levelVars, queryVars, playerVars, projVars, frames>>

InputStep ==
    \/ Lock
    \/ Unlock
    \/ \E code \in KeyCodes : KeyDown(code)
    \/ \E code \in KeyCodes : KeyUp(code)
    \/ KeySpace
    \/ \E yw \in Yaws : MouseMove(yw)

\* The player alone, on the map without monsters
InitYard == InitMap(MapYard)
NextYard == InputStep \/ \E delta \in Dts : Animate(delta)
SpecPlayer == InitYard /\ [][NextYard]_vars

\* The program with its monsters, the player turning and shooting from the
\* start cell (the movement keys are those of SpecPlayer)
Init == InitMap(MapArena)
Next ==
    \/ Lock
    \/ \E yw \in Yaws : MouseMove(yw)
    \/ \E delta \in Dts : Animate(delta)
    \/ MouseDown
    \/ \E i \in 1..Len(monsters) : TimerFire(i)
Spec == Init /\ [][Next]_vars

\* The same with takeDamage also called directly on any monster
NextApi ==
    \/ Next
    \/ \E i \in 1..Len(monsters) : TakeDamage(i, shotDamage)
SpecApi == Init /\ [][NextApi]_vars

\* The program with its monsters and the player walking: the forward key
\* pressed and released, the camera turned, frames and shots in any order
NextFrame ==
    \/ Lock
    \/ KeyDown("KeyW")
    \/ KeyUp("KeyW")
    \/ \E yw \in Yaws : MouseMove(yw)
    \/ \E delta \in Dts : Animate(delta)
    \/ MouseDown
    \/ \E i \in 1..Len(monsters) : TimerFire(i)
SpecFrame == Init /\ [][NextFrame]_vars

----------------------------------------------------------------------------
(* Grid queries on their own                                               *)

\* The queries go to the whole units from QueryReach units before the
\* origin to QueryReach units past the 12 units of a map of three cells: in
\* and out of the grid, the ties of the rounding (2, 6, 10 units) included.
QueryReach == 4
QueryCoords == {20 * k : k \in -QueryReach..(12 + QueryReach)}

\* level.isWall(x, z) and level.getFloorHeight(x, z)
GridQuery(x, z) ==
    /\ qx' = x
    /\ qz' = z
    /\ qWall' = isWall(level, x, z)
    /\ qFloor' = getFloorHeight(level, x, z)
    /\ last' = [op |-> "query"]
    /\ UNCHANGED <<levelVars, playerVars, monsterVars, projVars, frames>>

NextGrid == \E x \in QueryCoords, z \in QueryCoords : GridQuery(x, z)
SpecGrid == InitYard /\ [][NextGrid]_vars

----------------------------------------------------------------------------
(* A projectile fired along a corridor                                     *)

\* A corridor along X: a high platform, the start cell, an imp, a demon in
\* front of a wall.
MapRange ==
    << <<4, 0, 6, 0, 0, 7, 1, 0>> >>

\* Where the projectiles start on the corridor's axis (7 and 14 units, 28
\* units, which is behind the wall, and 5 units short of the travel limit),
\* at the player's eye height
ProjStarts == {140, 280, 560, 19900}
ProjDirs == {1, -1}

\* The frame times of the projectile's updates, in tenths of a second: at
\* 0.4 s the segment is 16 units long and can meet both monsters and the wall
ProjDts == {0, 1, 2, 4}

\* How far from its spawn point, along the corridor, a monster has moved
\* when the projectile is fired (0 or 1 unit towards the player)
ChaseOffsets == {0, -20}

\* Monster m after updates that moved it by off along X: it chases, stands on
\* the floor and its mesh is where it is.
moved(lv, m, off) ==
    LET x1 == m.position.x + off
        position1 == [x |-> x1,
                      y |-> getFloorHeight(lv, x1, m.position.z) + centreOffset(m.type),
                      z |-> m.position.z]
    IN  [m EXCEPT !.state = "chase", !.position = position1,
                  !.mesh = [@ EXCEPT !.x = position1.x, !.y = position1.y,
                                     !.z = position1.z]]

listOrders(n) ==
    {f \in [1..n -> 1..n] : \A i, j \in 1..n : i # j => f[i] # f[j]}

\* The level and the monsters of init(), the monsters moved and in any order
\* in the list, and a projectile constructed
InitRange ==
    /\ level = parseMap(MapRange)
    /\ qx = 0 /\ qz = 0 /\ qWall = FALSE /\ qFloor = 0
    /\ isLocked = FALSE
    /\ keys = noKeys
    /\ yaw = 0
    /\ LET startPos == getStartPosition(parseMap(MapRange))
       IN  pos = [x |-> startPos.x, y |-> height, z |-> startPos.z]
    /\ velocity = [x |-> 0, y |-> 0, z |-> 0]
    /\ onGround = FALSE
    /\ LET lv == parseMap(MapRange)
           spawns == lv.monsterSpawns
           n == Len(spawns)
       IN  /\ \E off \in [1..n -> ChaseOffsets], perm \in listOrders(n) :
                  monsters = [i \in 1..n |->
                      moved(lv, Monster(spawns[perm[i]].type, spawns[perm[i]].x,
                                        spawns[perm[i]].z), off[i])]
           /\ timers = [i \in 1..n |-> 0]
    /\ \E x0 \in ProjStarts, sx \in ProjDirs :
           proj = <<Projectile([x |-> x0, y |-> height, z |-> 0],
                               [x |-> sx, y |-> 0, z |-> 0])>>
    /\ frames = 0
    /\ last = [op |-> "init"]

\* projectile.update(delta, level, monsters, camera)
ProjectileUpdate(delta) ==
    /\ frames < MaxFrames
    /\ LET r == projectileUpdate(level, monsters, proj[1], delta)
       IN  /\ r.damaged # 0 => timers[r.damaged] < MaxPending
           /\ proj' = <<r.proj>>
           /\ monsters' = r.monsters
           /\ timers' = IF r.damaged # 0 THEN [timers EXCEPT ![r.damaged] = @ + 1]
                        ELSE timers
           /\ last' = [op |-> "projectile", delta |-> delta, hit |-> r.hit,
                       damaged |-> r.damaged, tested |-> r.tested]
    /\ frames' = frames + 1
    /\ UNCHANGED <<levelVars, queryVars, playerVars>>

\* The next projectile is constructed once the last one is destroyed
Fire(x0, sx) ==
    /\ ~proj[1].alive
    /\ proj' = <<Projectile([x |-> x0, y |-> height, z |-> 0],
                            [x |-> sx, y |-> 0, z |-> 0])>>
    /\ last' = [op |-> "fire"]
    /\ UNCHANGED <<levelVars, queryVars, playerVars, monsterVars, frames>>

NextRange ==
    \/ \E delta \in ProjDts : ProjectileUpdate(delta)
    \/ \E x0 \in ProjStarts, sx \in ProjDirs : Fire(x0, sx)
    \/ \E i \in 1..Len(monsters) : TimerFire(i)
SpecProjectile == InitRange /\ [][NextRange]_vars

\* The same with an update after a pause of 26 s (the page was hidden and
\* requestAnimationFrame did not run): the segment is 1040 units long
StallDts == {260}

NextStall ==
    \/ NextRange
    \/ \E delta \in StallDts : ProjectileUpdate(delta)
SpecStall == InitRange /\ [][NextStall]_vars

\* The objects of the hits handed to onHit: the mesh of a monster of the
\* list, or a mesh that no monster of the list has (0)
HitObjects == 0..2
HitTypes == {"monster", "wall"}

\* projectile.onHit(hit, type, monsters) called on a live projectile with a
\* hit at the projectile's position; the call counts as one of the frames
\* the model explores
OnHit(object, type) ==
    /\ frames < MaxFrames
    /\ proj[1].alive
    /\ LET hit == [distance |-> 0, kind |-> type, object |-> object,
                   point |-> proj[1].position]
           r == onHit(proj[1], monsters, hit, type)
       IN  /\ r.damaged # 0 => timers[r.damaged] < MaxPending
           /\ proj' = <<r.proj>>
           /\ monsters' = r.monsters
           /\ timers' = IF r.damaged # 0 THEN [timers EXCEPT ![r.damaged] = @ + 1]
                        ELSE timers
           /\ last' = [op |-> "onHit", type |-> type, object |-> object,
                       damaged |-> r.damaged, thrown |-> r.thrown]
    /\ frames' = frames + 1
    /\ UNCHANGED <<levelVars, queryVars, playerVars>>

NextOnHit ==
    \/ NextRange
    \/ \E object \in HitObjects, type \in HitTypes : OnHit(object, type)
SpecOnHit == InitRange /\ [][NextOnHit]_vars

----------------------------------------------------------------------------
(* A monster led by a player who stands anywhere                           *)

\* A room of three rows with one monster (kind: 6 imp, 7 demon) in its
\* north-west corner: a pit west of it, a wall east of it, a platform
\* north of it and floor south of it; the room is long enough for a player
\* at its east end to be out of the detection range.
MapChase(kind) ==
    << <<3, 4, 0, 0, 0, 0, 0, 0, 0, 0>>,
       <<5, kind, 1, 0, 0, 0, 0, 0, 0, 0>>,
       <<0, 0, 0, 0, 0, 0, 0, 0, 0, 0>> >>

\* Where the player stands when the monsters are updated: 32 units east of
\* the spawn cell (not detected), 20 units east (chased, not strafed), then
\* nearer and nearer south-east and south of it, and north of it on the
\* platform
PlayerSpots ==
    {[x |-> 720, z |-> 80], [x |-> 480, z |-> 80], [x |-> 320, z |-> 160],
     [x |-> 200, z |-> 160], [x |-> 80, z |-> 160], [x |-> 80, z |-> 0]}

\* The frame times of these updates, in tenths of a second
ChaseDts == {0, 2, 10}

InitChase == \E kind \in {6, 7} : InitMap(MapChase(kind))

\* monsters.forEach(m => m.update(delta, player)) for a player standing on
\* the floor at spot; candidates keeps what each update computed before its
\* collision test
MonsterUpdates(delta, spot) ==
    /\ frames < MaxFrames
    /\ LET playerPos == [x |-> spot.x,
                         y |-> getFloorHeight(level, spot.x, spot.z) + height,
                         z |-> spot.z]
       IN  /\ pos' = playerPos
           /\ \E rnd \in RndFor(monsters, delta, playerPos) :
                  /\ monsters' = [i \in 1..Len(monsters) |->
                                    monsterUpdate(level, monsters[i], delta,
                                                  playerPos, rnd[i])]
                  /\ last' = [op |-> "monsters", delta |-> delta,
                              candidates |->
                                  [i \in 1..Len(monsters) |->
                                     monsterCandidate(monsters[i], delta,
                                                      playerPos, rnd[i])]]
    /\ frames' = frames + 1
    /\ UNCHANGED <<levelVars, queryVars, isLocked, keys, yaw, velocity,
                   onGround, timers, projVars>>

NextChase == \E delta \in ChaseDts, spot \in PlayerSpots : MonsterUpdates(delta, spot)
SpecChase == InitChase /\ [][NextChase]_vars

----------------------------------------------------------------------------
(* The construction of a level from any map                                *)

\* The maps handed to new Level(scene, mapData): up to MaxRows rows of up to
\* MaxCols codes each, rows of different lengths included
MaxRows == 2
MaxCols == 2

\* The codes of the maps of any shape, and the codes of the one-row maps
ShapeCodes == {0, 1, 7}
AllCodes == 0..9

RowsOver(codes, n) == UNION {[1..k -> codes] : k \in 0..n}

ShapeMaps == UNION {[1..r -> RowsOver(ShapeCodes, MaxCols)] : r \in 0..MaxRows}
CodeMaps == {<<row>> : row \in RowsOver(AllCodes, MaxCols) \ {<<>>}}
RoomMaps == { << <<1, 1, 1>>, <<1, 0, 1>>, <<1, 1, 1>> >> }
ParseMaps == ShapeMaps \cup CodeMaps \cup RoomMaps

\* The fields of a Level before _parseMap runs (level.js 18-21)
emptyLevel == [rows |-> 0, cols |-> 0, grid |-> <<>>, monsterSpawns |-> <<>>]

\* Whether new Level(scene, mapData) throws: _parseMap reads
\* mapData[0].length, a TypeError when the map has no row; nothing else in
\* it tests the map.
parseThrows(mapData) == Len(mapData) = 0

\* Before init(): no level, no player, no monsters; the map is the input
InitParse ==
    /\ \E mapData \in ParseMaps : last = [op |-> "input", mapData |-> mapData]
    /\ level = emptyLevel
    /\ qx = 0 /\ qz = 0 /\ qWall = FALSE /\ qFloor = 0
    /\ isLocked = FALSE
    /\ keys = noKeys
    /\ yaw = 0
    /\ pos = [x |-> 0, y |-> 0, z |-> 0]
    /\ velocity = [x |-> 0, y |-> 0, z |-> 0]
    /\ onGround = FALSE
    /\ monsters = <<>>
    /\ timers = <<>>
    /\ proj = <<>>
    /\ frames = 0

\* init(), up to "level = new Level(scene, mapData)": if the constructor
\* throws, init() ends there and no level is assigned
Construct ==
    /\ last.op = "input"
    /\ level' = IF parseThrows(last.mapData) THEN level
                ELSE parseMap(last.mapData)
    /\ last' = [op |-> "construct", mapData |-> last.mapData,
                thrown |-> parseThrows(last.mapData)]
    /\ UNCHANGED <<queryVars, playerVars, monsterVars, projVars, frames>>

\* init(), from the player setup on: the player at the start position, one
\* monster per spawn record
Setup ==
    /\ last.op = "construct" /\ ~last.thrown
    /\ LET startPos == getStartPosition(level)
       IN  pos' = [x |-> startPos.x, y |-> height, z |-> startPos.z]
    /\ monsters' = [i \in 1..Len(level.monsterSpawns) |->
                      Monster(level.monsterSpawns[i].type,
                              level.monsterSpawns[i].x,
                              level.monsterSpawns[i].z)]
    /\ timers' = [i \in 1..Len(level.monsterSpawns) |-> 0]
    /\ last' = [op |-> "setup", mapData |-> last.mapData]
    /\ UNCHANGED <<levelVars, queryVars, isLocked, keys, yaw, velocity,
                   onGround, projVars, frames>>

NextParse == Construct \/ Setup
SpecParse == InitParse /\ [][NextParse]_vars

----------------------------------------------------------------------------
(* Properties of the construction (SpecParse)                              *)

\* A map with no row, or with rows of different lengths
Malformed(mapData) ==
    \/ Len(mapData) = 0
    \/ \E i, j \in 1..Len(mapData) : Len(mapData[i]) # Len(mapData[j])

\* C11, as stated: for a map with no row or with rows of different lengths
\* the construction fails and no grid, spawn records or monsters are built.
C11_MalformedRejected ==
    (last.op \in {"construct", "setup"} /\ Malformed(last.mapData))
    => /\ last.op = "construct"
       /\ last.thrown
       /\ level = emptyLevel
       /\ monsters = <<>>

\* The cells (row, column), 0-based, that are not walls and have floor 0
FloorCells ==
    {rc \in (0..(level.rows - 1)) \X (0..(level.cols - 1)) :
        /\ ~level.grid[rc[1] + 1][rc[2] + 1].isWall
        /\ level.grid[rc[1] + 1][rc[2] + 1].height = 0}

\* C12: the player is placed at (col * cellSize, row * cellSize) of the first
\* cell in row-major order that is not a wall and has floor 0, where isWall
\* is false, and at (0, 0) if there is no such cell; in the walled room of
\* one floor cell that is the floor cell, with walls one cell away all round.
C12_StartPosition ==
    last.op = "setup"
    => /\ FloorCells = {} => pos.x = 0 /\ pos.z = 0
       /\ FloorCells # {}
          => LET first == CHOOSE rc \in FloorCells :
                             \A o \in FloorCells :
                                 rc[1] * level.cols + rc[2]
                                    <= o[1] * level.cols + o[2]
             IN  /\ pos.x = first[2] * cellSize
                 /\ pos.z = first[1] * cellSize
                 /\ isWall(level, pos.x, pos.z) = FALSE
       /\ last.mapData \in RoomMaps
          => /\ pos.x = cellSize /\ pos.z = cellSize
             /\ \A dx, dz \in {-1, 0, 1} :
                   (dx # 0 \/ dz # 0)
                   => isWall(level, pos.x + dx * cellSize, pos.z + dz * cellSize)

\* C12's case: the player has been placed in the walled room.
C12_PlacedInRoom ==
    /\ last.op = "setup"
    /\ last.mapData \in RoomMaps
    /\ pos.x = 80 /\ pos.z = 80
    /\ ~isWall(level, pos.x, pos.z)

\* A map with at least one row and all rows of the same length
Rectangular(mapData) ==
    /\ Len(mapData) > 0
    /\ \A i \in 1..Len(mapData) : Len(mapData[i]) = Len(mapData[1])

\* The cells (row, column), 1-based, of the map with code 6 or 7
SpawnCells ==
    {rc \in (1..Len(last.mapData)) \X (1..Len(last.mapData[1])) :
        last.mapData[rc[1]][rc[2]] \in {6, 7}}

\* C13: for a rectangular map, after the construction every cell is what its
\* code says (1 wall; 3, 4, 5 floors at 1.5, 3.0, -2.0; every other code a
\* floor at 0; an item for 2 alone; ceiling 4.0 on every cell that is not a
\* wall), there is exactly one spawn record per cell of code 6 (imp) or 7
\* (demon), at the cell's world position, where isWall is false and the floor
\* is 0, and after the setup one monster per spawn record.
C13_ParseTable ==
    (last.op \in {"construct", "setup"} /\ Rectangular(last.mapData))
    => /\ level.rows = Len(last.mapData)
       /\ level.cols = Len(last.mapData[1])
       /\ \A r \in 1..level.rows, c \in 1..level.cols :
             LET code == last.mapData[r][c]
                 cell == level.grid[r][c]
             IN  /\ cell.isWall = (code = 1)
                 /\ cell.hasItem = (code = 2)
                 /\ ~cell.isWall
                    => /\ cell.ceilHeight = 80
                       /\ cell.height = CASE code = 3 -> 30
                                          [] code = 4 -> 60
                                          [] code = 5 -> -40
                                          [] OTHER -> 0
       /\ Len(level.monsterSpawns) = Cardinality(SpawnCells)
       /\ \A rc \in SpawnCells :
             LET x == (rc[2] - 1) * cellSize
                 z == (rc[1] - 1) * cellSize
                 type == IF last.mapData[rc[1]][rc[2]] = 6 THEN "imp" ELSE "demon"
             IN  /\ Cardinality({i \in 1..Len(level.monsterSpawns) :
                        level.monsterSpawns[i] = [type |-> type, x |-> x, z |-> z]}) = 1
                 /\ isWall(level, x, z) = FALSE
                 /\ getFloorHeight(level, x, z) = 0
       /\ last.op = "setup"
          => /\ Len(monsters) = Len(level.monsterSpawns)
             /\ \A i \in 1..Len(monsters) :
                   /\ monsters[i].type = level.monsterSpawns[i].type
                   /\ monsters[i].position.x = level.monsterSpawns[i].x
                   /\ monsters[i].position.z = level.monsterSpawns[i].z

\* C13's case: a pit beside a demon's cell has been parsed and set up.
C13_PitAndDemon ==
    /\ last.op = "setup"
    /\ last.mapData = << <<5, 7>> >>
    /\ level.grid[1][1].height = -40
    /\ Len(monsters) = 1 /\ monsters[1].type = "demon"
    /\ monsters[1].position.x = 80

----------------------------------------------------------------------------
(* Properties of the player (SpecPlayer)                                   *)

\* A frame in which Player.update ran past its "controls not locked" return
AnimateRan == frames' = frames + 1 /\ last'.info.ran

\* Whether the player may enter the point (x, z) from a floor at currentFloorY
\* by the step-up rule, as the specification words it
MayEnter(x, z, currentFloorY) ==
    /\ isWall(level, x, z) = FALSE
    /\ getFloorHeight(level, x, z) <= currentFloorY + stepHeight

\* C1: in every player update that runs, for X and then Z, the move on the
\* axis is applied iff the candidate point is not a wall and its floor is at
\* most stepHeight above the floor the update started on, and otherwise the
\* coordinate on that axis is unchanged; between floors 0 and 1.5, entry is
\* blocked for a step height of 1.1 and succeeds for 2.0.
C1_StepUpRule ==
    /\ [][AnimateRan =>
            LET startFloor == getFloorHeight(level, pos.x, pos.z)
                candX == pos.x + last'.info.deltaX
                candZ == pos.z + last'.info.deltaZ
            IN  /\ pos'.x = IF MayEnter(candX, pos.z, startFloor)
                            THEN candX ELSE pos.x
                /\ pos'.z = IF MayEnter(pos'.x, candZ, startFloor)
                            THEN candZ ELSE pos.z]_vars
    /\ [](\A x, z \in {0, 80, 160} :
            getFloorHeight(level, x, z) = 30
            => /\ ~canMoveToStep(level, x, z, 0, 22)
               /\ canMoveToStep(level, x, z, 0, 40))

\* C1's case: a frame has just tried to move the player along X from a floor
\* at 0 onto a floor at 1.5 and the move was refused.
C1_StepRefused ==
    /\ last.op = "animate" /\ last.info.ran
    /\ last.info.deltaX # 0 /\ ~last.info.okX
    /\ last.info.currentFloorY = 0
    /\ LET startZ == IF last.info.okZ THEN pos.z - last.info.deltaZ ELSE pos.z
       IN  /\ ~isWall(level, pos.x + last.info.deltaX, startZ)
           /\ getFloorHeight(level, pos.x + last.info.deltaX, startZ) = 30

\* C2, as stated: in every reachable state the player's Y is at least the
\* floor height under the player plus the eye height, and whenever it equals
\* it the player is on the ground.
C2_GroundedWhenOnFloor ==
    /\ pos.y >= getFloorHeight(level, pos.x, pos.z) + height
    /\ pos.y = getFloorHeight(level, pos.x, pos.z) + height => onGround

\* C2, amended: in every reachable state the player's Y is at least the
\* floor height under the player plus the eye height, and whenever the player
\* is on the ground the two are equal.
C2_Grounding ==
    /\ pos.y >= getFloorHeight(level, pos.x, pos.z) + height
    /\ onGround => pos.y = getFloorHeight(level, pos.x, pos.z) + height

\* C2's case: the player has fallen into the pit and landed on its floor.
C2_LandedInPit ==
    /\ last.op = "animate" /\ last.info.ran
    /\ getFloorHeight(level, pos.x, pos.z) = -40
    /\ onGround
    /\ last.info.deltaY < 0

----------------------------------------------------------------------------
(* Properties of the monsters' damage and death (Spec, SpecApi, SpecLive)  *)

\* C3, as stated: once a monster is dead, no step (frame, takeDamage call,
\* shot or timer callback) changes its position or its health.
C3_DeadIsFrozen ==
    [][\A i \in 1..Len(monsters) :
          monsters[i].state = "dead"
          => /\ monsters'[i].position = monsters[i].position
             /\ monsters'[i].health = monsters[i].health]_vars

\* C4, as stated: between tasks, a monster whose health is 0 or less is dead.
C4_DeadAtOnce ==
    \A i \in 1..Len(monsters) :
        monsters[i].health <= 0 => monsters[i].state = "dead"

\* The starting health of a kind of monster, as the specification gives it
StartingHealth(type) == IF type = "demon" THEN 100 ELSE 40

\* Damage accumulates, in every state: the health is the starting health less
\* 20 per takeDamage(20); a dead monster has taken at least its starting
\* health; a demon damaged once has health 80 and is not dead; and once no
\* callback is pending a monster with no health left is dead.
DamageAccounts ==
    \A i \in 1..Len(monsters) :
        LET m == monsters[i]
        IN  /\ m.health = StartingHealth(m.type) - 20 * m.damageCalls
            /\ m.state = "dead" => 20 * m.damageCalls >= StartingHealth(m.type)
            /\ m.type = "demon" /\ m.damageCalls = 1
               => m.health = 80 /\ m.state # "dead"
            /\ m.health <= 0 /\ timers[i] = 0 => m.state = "dead"

\* The pending callbacks run: no callback stays pending forever
SpecLive == Spec /\ WF_vars(\E i \in 1..Len(monsters) : TimerFire(i))

\* C5: damage accumulates against the starting health (DamageAccounts), and
\* the demon (first in the list) after 5 and the imp (second) after 2 calls
\* of takeDamage(20) are eventually dead, whatever frames, turns and shots
\* come in between, given that pending callbacks run.
C5_DamageAccumulates ==
    /\ []DamageAccounts
    /\ (monsters[1].type = "demon" /\ monsters[1].damageCalls >= 5)
          ~> (monsters[1].state = "dead")
    /\ (monsters[2].type = "imp" /\ monsters[2].damageCalls >= 2)
          ~> (monsters[2].state = "dead")

\* C5's case: the demon has died of 5 shots and the imp of 2.
C5_BothKilled ==
    /\ monsters[1].type = "demon" /\ monsters[1].damageCalls = 5
    /\ monsters[1].state = "dead"
    /\ monsters[2].type = "imp" /\ monsters[2].damageCalls = 2
    /\ monsters[2].state = "dead"

\* C6, as stated: die is executed at most once on every monster.
C6_DiesOnce ==
    \A i \in 1..Len(monsters) : monsters[i].deaths <= 1

----------------------------------------------------------------------------
(* Properties of the projectile (SpecProjectile)                           *)

\* The distances from the start of the segment of all the intersections of
\* the segment swept in the last projectile update, with the level's meshes
\* and with the sprites of the monsters that are not dead, as a set.
SweptDistances ==
    LET origin == proj[1].lastPosition
        sx == proj[1].direction.x
        far == (projectileSpeed * last.delta) \div 10
        meshes == levelMeshes(level)
    IN  {rayMesh(origin, sx, far, meshes[k])[1].distance :
            k \in {j \in 1..Len(meshes) :
                     rayMesh(origin, sx, far, meshes[j]) # <<>>}}
        \cup
        {raySprite(origin, sx, far, monsters, i)[1].distance :
            i \in {j \in 1..Len(monsters) :
                     /\ monsters[j].state # "dead"
                     /\ raySprite(origin, sx, far, monsters, j) # <<>>}}

\* C7: after a projectile update with a displacement, the hit acted on is an
\* intersection of the swept segment at the least distance from its start
\* among all intersections with level surfaces and monsters that are not
\* dead (none acted on iff there is none), in any order of the monsters list.
C7_ClosestHit ==
    last.op = "projectile" /\ last.tested
    => IF SweptDistances = {} THEN last.hit = <<>>
       ELSE /\ last.hit # <<>>
            /\ last.hit[1].distance \in SweptDistances
            /\ \A d \in SweptDistances : last.hit[1].distance <= d

\* C7's case: the segment met both monsters and, farther, the wall; the
\* farther monster is first in the monsters list and the nearer one was
\* acted on.
C7_NearestOfThree ==
    /\ last.op = "projectile" /\ last.tested
    /\ Cardinality(SweptDistances) >= 3
    /\ last.hit # <<>> /\ last.hit[1].kind = "monster"
    /\ monsters[1].type = "demon"
    /\ monsters[last.hit[1].object].type = "imp"
    /\ last.damaged = last.hit[1].object

\* Monster i is 5 units ahead of the projectile, not dead, nothing nearer,
\* and a wall is 8 units ahead on the same ray.
MonsterAt5WallAt8(i) ==
    LET origin == proj[1].position
        sx == proj[1].direction.x
        meshes == levelMeshes(level)
    IN  /\ proj[1].alive
        /\ monsters[i].state # "dead"
        /\ raySprite(origin, sx, 100, monsters, i) # <<>>
        /\ raySprite(origin, sx, 99, monsters, i) = <<>>
        /\ \A j \in 1..Len(monsters) :
              j # i => raySprite(origin, sx, 100, monsters, j) = <<>>
        /\ \A k \in 1..Len(meshes) : rayMesh(origin, sx, 159, meshes[k]) = <<>>
        /\ \E k \in 1..Len(meshes) :
              /\ meshes[k].kind = "wall"
              /\ rayMesh(origin, sx, 160, meshes[k]) # <<>>

\* A projectile update whose segment reaches 8 units or more
LongTick == frames' = frames + 1 /\ last'.tested /\ 80 * last'.delta >= 160

\* What the update does to the monsters when it damages monster i once
DamagedOnce(i) ==
    /\ last'.damaged = i
    /\ monsters' = [monsters EXCEPT ![i].health = @ - 20,
                                    ![i].damageCalls = @ + 1]

\* C8, as stated: when the segment of one tick meets a monster at 5 units and
\* a wall at 8, the monster is selected, it alone takes 20 damage once, the
\* projectile is not alive after the tick and its position has not reached
\* the wall.
C8_StopsBeforeWall ==
    [][\A i \in 1..Len(monsters) :
          LongTick /\ MonsterAt5WallAt8(i)
          => /\ last'.hit # <<>> /\ last'.hit[1].kind = "monster"
             /\ DamagedOnce(i)
             /\ ~proj'[1].alive
             /\ (proj'[1].position.x - proj[1].position.x)
                   * proj[1].direction.x < 160]_vars

\* C8, amended: when the segment of one tick meets a monster at 5 units and a
\* wall at 8, the monster is selected, it alone takes 20 damage once, the
\* projectile is not alive after the tick, the impact point is the monster's,
\* 5 units from the start of the segment and before the wall, and the
\* projectile's position is the end of the segment, at or past the wall.
C8_HitsMonsterFirst ==
    [][\A i \in 1..Len(monsters) :
          LongTick /\ MonsterAt5WallAt8(i)
          => /\ last'.hit # <<>> /\ last'.hit[1].kind = "monster"
             /\ DamagedOnce(i)
             /\ ~proj'[1].alive
             /\ (last'.hit[1].point.x - proj[1].position.x)
                   * proj[1].direction.x = 100
             /\ proj'[1].lastPosition = proj[1].position
             /\ (proj'[1].position.x - proj[1].position.x)
                   * proj[1].direction.x = 80 * last'.delta
             /\ (proj'[1].position.x - proj[1].position.x)
                   * proj[1].direction.x >= 160]_vars

\* C8's case: a tick has just met the demon at 5 units, with the wall at 8
\* units from the start of the segment, and the demon took the damage.
C8_DemonHitAt5 ==
    /\ last.op = "projectile" /\ last.tested
    /\ last.hit # <<>> /\ last.hit[1].kind = "monster"
    /\ last.hit[1].distance = 100
    /\ monsters[last.damaged].type = "demon"
    /\ monsters[last.damaged].damageCalls = 1
    /\ ~proj[1].alive
    /\ \E k \in 1..Len(levelMeshes(level)) :
          /\ levelMeshes(level)[k].kind = "wall"
          /\ rayMesh(proj[1].lastPosition, proj[1].direction.x, 160,
                     levelMeshes(level)[k]) # <<>>

----------------------------------------------------------------------------
(* Properties of the shot (Spec)                                           *)

\* The monsters a shot from the player's position along the aim direction may
\* damage: not dead, under 50 units away, under 0.2 rad off the aim
Qualifying ==
    {i \in 1..Len(monsters) :
        LET m == monsters[i]
            t == [x |-> m.position.x - pos.x, y |-> m.position.y - pos.y,
                  z |-> m.position.z - pos.z]
        IN  /\ m.state # "dead"
            /\ t.x * t.x + t.y * t.y + t.z * t.z < 1000 * 1000
            /\ inCone(forwardOf(yaw), t)}

\* C9: a shot (with the pointer locked) damages at most one monster, by 20:
\* the first in list order that is not dead, under 50 units away and under
\* 0.2 rad off the aim; if there is none, no monster changes.
C9_ShotHitsFirstInList ==
    [][last'.op = "shot" /\ isLocked /\ (last' # last \/ monsters' # monsters)
       => IF Qualifying = {} THEN monsters' = monsters
          ELSE LET first == CHOOSE i \in Qualifying :
                                \A j \in Qualifying : i <= j
               IN  monsters' = [monsters EXCEPT ![first].health = @ - 20,
                                                ![first].damageCalls = @ + 1]]_vars

\* C9's case: a shot has just damaged the demon, first in the list, while
\* the imp, second in the list, was in range and in the cone too, and nearer.
C9_FartherButFirst ==
    /\ last.op = "shot" /\ last.target = 1
    /\ monsters[1].type = "demon" /\ monsters[1].damageCalls = 1
    /\ 2 \in Qualifying
    /\ distSq(monsters[2].position, pos) < distSq(monsters[1].position, pos)

----------------------------------------------------------------------------
(* Properties of the grid queries (SpecGrid)                               *)

\* The integer nearest to c / cellSize, a tie going up: the k with
\* k - 1/2 <= c / cellSize < k + 1/2
NearestCell(c) ==
    CHOOSE k \in -(QueryReach + 12)..(QueryReach + 12) :
        /\ 2 * k * cellSize - cellSize <= 2 * c
        /\ 2 * c < 2 * k * cellSize + cellSize

\* C10: a grid query at any (x, z) answers with the data of the cell at
\* (round(x / cellSize), round(z / cellSize)) if that is a cell of the grid,
\* and otherwise with wall = true and floor height = -100.
C10_GridQueries ==
    last.op = "query"
    => LET c == NearestCell(qx)
           r == NearestCell(qz)
       IN  IF 0 <= c /\ c < level.cols /\ 0 <= r /\ r < level.rows
           THEN /\ qWall = level.grid[r + 1][c + 1].isWall
                /\ qFloor = level.grid[r + 1][c + 1].height
           ELSE /\ qWall = TRUE
                /\ qFloor = -2000

\* C10's case: a query at a tie of the rounding (x = 6 units, between cells 1
\* and 2) was answered from the platform cell (2, 0), and not from the pit.
C10_TieGoesUp ==
    /\ last.op = "query"
    /\ qx = 120 /\ qz = 0
    /\ qWall = FALSE /\ qFloor = 60

----------------------------------------------------------------------------
(* Properties of the monsters' states (Spec)                               *)

\* C14, as stated: a monster's state changes only from idle to chase and from
\* chase to dead, and an idle monster that is not dead chases after the first
\* update in which its distance to the player is under 30.
C14_IdleChaseDead ==
    [][\A i \in 1..Len(monsters) :
          LET before == monsters[i].state
              after == monsters'[i].state
          IN  /\ before # after
                 => \/ before = "idle" /\ after = "chase"
                    \/ before = "chase" /\ after = "dead"
              /\ (/\ frames' = frames + 1
                  /\ before = "idle"
                  /\ distSq(monsters[i].position, pos') < 600 * 600)
                 => after = "chase"]_vars

----------------------------------------------------------------------------
(* Properties of the projectile's life (SpecProjectile)                    *)

\* An update of a projectile that is alive
LiveTick == frames' = frames + 1 /\ proj[1].alive

\* The square of the distance between two points
GapSq(a, b) ==
    (a.x - b.x) * (a.x - b.x) + (a.y - b.y) * (a.y - b.y)
    + (a.z - b.z) * (a.z - b.z)

\* C16, as stated: an update of a live projectile leaves it not alive iff it
\* hit something or it is then more than 1000 away from the point it was
\* fired from.
C16_DiesByTravel ==
    [][LiveTick
       => (~proj'[1].alive
           <=> \/ last'.hit # <<>>
               \/ GapSq(proj'[1].position, proj'[1].fired) > 20000 * 20000)]_vars

\* C16, amended: an update of a live projectile leaves it not alive iff it
\* hit something or it is then more than 1000 away from the world's origin
\* (wherever it was fired from); an update with dt > 0 advances it by
\* 40 * dt along its direction, so that after finitely many such updates it
\* is not alive.
C16_DiesByHitOrRange ==
    [][LiveTick
       => /\ ~proj'[1].alive
             <=> \/ last'.hit # <<>>
                 \/ GapSq(proj'[1].position, [x |-> 0, y |-> 0, z |-> 0])
                       > 20000 * 20000
          /\ (proj'[1].position.x - proj[1].position.x) * proj[1].direction.x
                = 80 * last'.delta
          /\ proj'[1].direction = proj[1].direction
          /\ proj'[1].direction.x \in {1, -1}]_vars

\* C16's case: a projectile fired 5 units short of the range has been
\* destroyed without a hit, 8 units or more from where it was fired.
C16_OutOfRange ==
    /\ last.op = "projectile" /\ last.tested
    /\ last.hit = <<>>
    /\ ~proj[1].alive
    /\ proj[1].fired.x = 19900
    /\ proj[1].position.x >= 20000

\* C17: an update of a projectile that is not alive changes nothing of it
\* (position, lastPosition, alive), makes no intersection test and damages
\* no monster; only a new projectile is alive again.
C17_DestroyedIsInert ==
    [][(frames' = frames + 1 /\ ~proj[1].alive)
       => /\ proj' = proj
          /\ monsters' = monsters
          /\ timers' = timers
          /\ ~last'.tested /\ last'.hit = <<>> /\ last'.damaged = 0]_vars

\* C17's case: a destroyed projectile has just been updated with dt > 0.
C17_UpdatedWhenDestroyed ==
    /\ last.op = "projectile" /\ last.delta > 0
    /\ ~last.tested
    /\ ~proj[1].alive /\ proj[1].destroys = 1

----------------------------------------------------------------------------
(* More properties of the player (SpecPlayer)                              *)

\* The player's velocity along the world's X and Z axes, as update turns the
\* velocity into a displacement
WorldVelocityX ==
    rightOf(yaw).x * velocity.x + forwardOf(yaw).x * velocity.z
WorldVelocityZ ==
    rightOf(yaw).z * velocity.x + forwardOf(yaw).z * velocity.z

\* C18, as stated: after an update in which the move along a world axis was
\* blocked, the player has no velocity along that world axis, whichever way
\* the player faces.
C18_BlockedAxisStops ==
    [][AnimateRan
       => /\ ~last'.info.okX => WorldVelocityX' = 0
          /\ ~last'.info.okZ => WorldVelocityZ' = 0]_vars

\* The floor height under the player
FloorUnder == getFloorHeight(level, pos.x, pos.z)

\* C19: no step takes the player to a floor more than stepHeight (1.1) above
\* the floor it was on, so the player, who starts on floor 0, is never on a
\* floor at 1.5 or 3.0, and once in the pit (-2.0) stays in it.
C19_StepUpPerMove ==
    /\ [][FloorUnder' <= FloorUnder + 22]_vars
    /\ [](FloorUnder \in {0, -40})
    /\ [][FloorUnder = -40 => FloorUnder' = -40]_vars

\* C19's case: the player, in the pit, has just been refused the way back
\* to the floor at 0.
C19_KeptInPit ==
    /\ last.op = "animate" /\ last.info.ran
    /\ last.info.currentFloorY = -40
    /\ FloorUnder = -40
    /\ last.info.deltaZ # 0 /\ ~last.info.okZ
    /\ ~isWall(level, pos.x, pos.z + last.info.deltaZ)
    /\ getFloorHeight(level, pos.x, pos.z + last.info.deltaZ) = 0

\* C20: the Z move is decided at the X the X move has left: if the X move
\* was refused and the point (old X, Z + deltaZ) may be entered, the Z move
\* is applied; if the X move was applied, the Z move is applied iff the
\* point (new X, Z + deltaZ) may be entered.
C20_ZAfterX ==
    [][AnimateRan =>
          LET startFloor == getFloorHeight(level, pos.x, pos.z)
              candZ == pos.z + last'.info.deltaZ
          IN  IF pos'.x = pos.x
              THEN MayEnter(pos.x, candZ, startFloor) => pos'.z = candZ
              ELSE /\ pos'.x = pos.x + last'.info.deltaX
                   /\ pos'.z = IF MayEnter(pos.x + last'.info.deltaX, candZ,
                                           startFloor)
                               THEN candZ ELSE pos.z]_vars

\* C20's case: the X move was applied and the Z move refused at the new X,
\* where the same Z move from the old X would have been allowed.
C20_RefusedAtNewX ==
    /\ last.op = "animate" /\ last.info.ran
    /\ last.info.okX /\ last.info.deltaX # 0
    /\ last.info.deltaZ # 0 /\ ~last.info.okZ
    /\ MayEnter(pos.x - last.info.deltaX, pos.z + last.info.deltaZ,
                last.info.currentFloorY)

----------------------------------------------------------------------------
(* Properties of the order within a frame (SpecFrame)                      *)

----------------------------------------------------------------------------
(* Properties of the chase (SpecChase)                                     *)

\* moveVec, a unit vector in thousandths, resolved along the horizontal
\* direction from a to b and across it, in millionths
Along(moveVec, a, b) ==
    LET direction == normalize(b.x - a.x, b.z - a.z)
    IN  moveVec.x * direction.x + moveVec.z * direction.z

Across(moveVec, a, b) ==
    LET direction == normalize(b.x - a.x, b.z - a.z)
    IN  moveVec.x * direction.z - moveVec.z * direction.x

\* Zero to the precision of the thousandths
Negligible(v) == Abs(v) <= 5000

MonstersUpdated == frames' = frames + 1 /\ last'.op = "monsters"

\* C21: the move of a chasing monster at distance d from the player has a
\* component toward the player if d > 8, away from the player if d < 6 and
\* none along that direction otherwise, and it has a component across that
\* direction only if d < 20.
C21_ChaseMove ==
    [][MonstersUpdated
       => \A i \in 1..Len(monsters) :
              monsters'[i].state = "chase"
              => LET dSq == distSq(monsters[i].position, pos')
                     moveVec == last'.candidates[i].moveVec
                     along == Along(moveVec, monsters[i].position, pos')
                     across == Across(moveVec, monsters[i].position, pos')
                 IN  /\ dSq > 160 * 160 => along > 5000
                     /\ dSq < 120 * 120 => along < -5000
                     /\ dSq <= 160 * 160 /\ dSq >= 120 * 120 => Negligible(along)
                     /\ ~Negligible(across) => dSq < 400 * 400]_vars

\* C21's case: the monster has just backed away from a player who stood
\* less than 6 units from it, strafing as it went.
C21_BackedAway ==
    /\ last.op = "monsters" /\ last.delta > 0
    /\ monsters[1].state = "chase"
    /\ monsters[1].position.x = last.candidates[1].nextX
    /\ monsters[1].position.z = last.candidates[1].nextZ
    /\ distSq(monsters[1].position, pos) < 160 * 160
    /\ Along(last.candidates[1].moveVec, monsters[1].position, pos) < -5000
    /\ ~Negligible(Across(last.candidates[1].moveVec, monsters[1].position, pos))

\* C22: a monster never stands in a wall or outside the grid, and an update
\* of a chasing monster applies its X move iff the cell at (nextX, z) is not
\* a wall and its Z move iff the cell at (x after the X move, nextZ) is not
\* a wall, whatever the floor heights.
C22_WallBlocked ==
    /\ [](\A i \in 1..Len(monsters) :
             LET p == monsters[i].position
             IN  /\ inGrid(level, gridIndex(p.x), gridIndex(p.z))
                 /\ ~level.grid[gridIndex(p.z) + 1][gridIndex(p.x) + 1].isWall)
    /\ [][MonstersUpdated
          => \A i \in 1..Len(monsters) :
                 monsters'[i].state = "chase"
                 => LET c == last'.candidates[i]
                        p == monsters[i].position
                        q == monsters'[i].position
                    IN  /\ q.x = IF isWall(level, c.nextX, p.z) THEN p.x ELSE c.nextX
                        /\ q.z = IF isWall(level, q.x, c.nextZ) THEN p.z ELSE c.nextZ]_vars

\* C22's case: the monster has walked from its spawn cell, at floor 0, onto
\* the platform 3 units high north of it, and its move east, into the wall,
\* was refused in the same update.
C22_OntoPlatform ==
    /\ last.op = "monsters" /\ last.delta > 0
    /\ monsters[1].state = "chase"
    /\ getFloorHeight(level, monsters[1].position.x, monsters[1].position.z) = 60
    /\ monsters[1].position.z = last.candidates[1].nextZ
    /\ monsters[1].position.x # last.candidates[1].nextX

\* C23: after every update of a monster that is not dead, idle or chasing,
\* its y is the floor height at its new (x, z) plus 1.0 for an imp and 1.25
\* for a demon.
C23_TracksFloor ==
    [][MonstersUpdated
       => \A i \in 1..Len(monsters) :
              monsters'[i].state # "dead"
              => LET q == monsters'[i].position
                 IN  q.y = getFloorHeight(level, q.x, q.z)
                           + (IF monsters'[i].type = "demon" THEN 25 ELSE 20)]_vars

\* C23's case: a demon has just moved into the pit west of its spawn cell
\* and its centre is 1.25 above the pit's floor, below the floor it left.
C23_DemonInPit ==
    /\ last.op = "monsters" /\ last.delta > 0
    /\ monsters[1].type = "demon" /\ monsters[1].state = "chase"
    /\ monsters[1].position.x = last.candidates[1].nextX
    /\ getFloorHeight(level, monsters[1].position.x, monsters[1].position.z) = -40
    /\ monsters[1].position.y = -15

----------------------------------------------------------------------------
(* Properties of a projectile at rest and of its destruction               *)

\* C24: an update with dt = 0 makes no intersection test: no monster is
\* damaged, no hit is acted on and a live projectile stays alive (unless it
\* is beyond the travel limit), even where it lies on a wall or a monster.
C24_NoTestAtRest ==
    [][frames' = frames + 1 /\ last'.op = "projectile" /\ last'.delta = 0
       => /\ monsters' = monsters
          /\ timers' = timers
          /\ last'.hit = <<>>
          /\ proj'[1].position = proj[1].position
          /\ proj[1].alive
             => \/ proj'[1].alive
                \/ GapSq(proj[1].position, [x |-> 0, y |-> 0, z |-> 0])
                   > 20000 * 20000]_vars

\* C24's case: a live projectile has just been updated with dt = 0 at the
\* very place of a live monster, within its sprite.
C24_AtRestOnMonster ==
    /\ last.op = "projectile" /\ last.delta = 0
    /\ proj[1].alive
    /\ \E i \in 1..Len(monsters) :
           /\ monsters[i].state # "dead"
           /\ monsters[i].mesh.x = proj[1].position.x
           /\ 2 * Abs(proj[1].position.y - monsters[i].mesh.y) <= monsters[i].mesh.scaleY
           /\ 2 * Abs(proj[1].position.z - monsters[i].mesh.z)
              <= spriteWidth(monsters[i].type)

\* C25: a hit on a monster mesh that no monster of the list has damages no
\* monster, raises no error and still destroys the projectile; a hit on a
\* wall, handed to onHit or found by an update, damages no monster.
C25_StaleHitHarmless ==
    [][/\ frames' = frames + 1 /\ last'.op = "onHit"
          => /\ ~last'.thrown
             /\ ~proj'[1].alive
             /\ last'.type = "wall" \/ last'.object \notin 1..Len(monsters)
                => monsters' = monsters /\ timers' = timers
       /\ (/\ frames' = frames + 1 /\ last'.op = "projectile"
           /\ last'.hit # <<>> /\ last'.hit[1].kind # "monster")
          => monsters' = monsters /\ timers' = timers /\ ~proj'[1].alive]_vars

\* C25's case: onHit has just been called with a monster hit whose mesh no
\* monster has; the projectile is destroyed and no monster was ever damaged.
C25_StaleHit ==
    /\ last.op = "onHit" /\ last.type = "monster" /\ last.object = 0
    /\ ~last.thrown /\ last.damaged = 0
    /\ ~proj[1].alive /\ proj[1].destroys = 1
    /\ \A i \in 1..Len(monsters) : monsters[i].damageCalls = 0

\* C28: destroy is executed at most once on a projectile, also in a tick in
\* which it both hits something and ends beyond the maximum distance.
C28_DestroyedOnce ==
    \A k \in 1..Len(proj) : proj[k].destroys <= 1

----------------------------------------------------------------------------
(* Properties of the monsters' health (SpecApi)                            *)

\* C26: a step changes a monster's health only by executing takeDamage on
\* that monster, which lowers it by the amount (20); frames, callbacks and
\* deaths leave every health as it is, and no health ever goes up.
C26_HealthOnlyByDamage ==
    [][/\ \A i \in 1..Len(monsters) :
              LET calls == monsters'[i].damageCalls - monsters[i].damageCalls
              IN  /\ calls \in {0, 1}
                  /\ monsters'[i].health = monsters[i].health - 20 * calls
                  /\ monsters'[i].health <= monsters[i].health
       /\ \A i, j \in 1..Len(monsters) :
              /\ monsters'[i].damageCalls # monsters[i].damageCalls
              /\ monsters'[j].damageCalls # monsters[j].damageCalls
              => i = j
       /\ last'.op \in {"animate", "timer"} /\ last' # last
          => \A i \in 1..Len(monsters) : monsters'[i].health = monsters[i].health]_vars

\* C26's case: the imp has been damaged three times and is dead at health
\* -20 after a callback; the demon, never damaged, was updated by a frame
\* and still has its 100.
C26_DiedBelowZero ==
    /\ last.op = "timer" /\ frames >= 1
    /\ \E i, j \in 1..Len(monsters) :
           /\ monsters[i].type = "imp" /\ monsters[i].state = "dead"
           /\ monsters[i].damageCalls = 3 /\ monsters[i].health = -20
           /\ monsters[j].type = "demon" /\ monsters[j].damageCalls = 0
           /\ monsters[j].health = 100 /\ monsters[j].position.y = 25

----------------------------------------------------------------------------
(* Properties of the player's cell (SpecPlayer)                            *)

\* C27: the player, who starts on a cell of the grid that is not a wall, is
\* on such a cell after any updates, whatever the frame times, the keys,
\* the facing and the jumps, and the floor under it is never the void's
\* (-100).
C27_NeverInWallOrVoid ==
    /\ gridIndex(pos.x) \in 0..(level.cols - 1)
    /\ gridIndex(pos.z) \in 0..(level.rows - 1)
    /\ ~level.grid[gridIndex(pos.z) + 1][gridIndex(pos.x) + 1].isWall
    /\ FloorUnder # -2000

\* C27's case: in the air after a jump, the player has just been refused a
\* move along X that ended outside the grid, above the void.
C27_RefusedAtEdge ==
    /\ last.op = "animate" /\ last.info.ran
    /\ ~onGround
    /\ last.info.deltaX # 0 /\ ~last.info.okX
    /\ gridIndex(pos.x + last.info.deltaX) \notin 0..(level.cols - 1)

====
